---- MODULE Spec2Model ----
(***************************************************************************)
(* NDCell: the hash-consed N-dimensional tree (NdTree: set_cell, get_cell, *)
(* expand, expand_to, shrink) and the HashLife stepper (Simulation::step,  *)
(* Simulation::advance_inner_node).                                        *)
(*                                                                         *)
(* A node is identified with its content: a node of layer L is the         *)
(* sequence of its BRANCHES^L cells, listed branch after branch (branch i  *)
(* of a node is the i-th block of the sequence).  Two nodes are the same   *)
(* interned object exactly when the sequences are equal.                   *)
(***************************************************************************)
EXTENDS Integers, Sequences, FiniteSets, TLC

\* ------------------------------------------------------------------ bounds
MaxCoord == 1          \* set_cell writes positions in -MaxCoord-1 .. MaxCoord
MaxState == 2          \* cell states 0 .. MaxState
MaxStep == 2           \* step sizes offered to step() go up to MaxStep
MaxSets == 2           \* set_cell calls per behaviour of SpecTree
MaxSimSets == 1        \* set_cell calls per behaviour of Spec
MaxSimLayer == 2       \* explicit expand() in Spec is offered below this layer
MaxSteps == 1          \* step calls per behaviour of Spec
MaxLayer == 4          \* explicit expand() in SpecTree is offered below this layer
MaxReuseSets == 3      \* set_cell calls per behaviour of SpecReuse
MaxReuseSteps == 2     \* step calls per behaviour of SpecReuse
MaxReuseLayer == 2     \* explicit expand() in SpecReuse is offered below this layer
MaxRadius == 32        \* radii offered to Simulation::new in SpecNew
MaxCacheOps == 3       \* tree operations per behaviour of SpecCache
MaxExpandTo == 2       \* expand_to is offered positions in -MaxExpandTo-1 .. MaxExpandTo
MaxCacheLayer == 3
MaxGuiInt == 3         \* the input fields are given values in -MaxGuiInt .. MaxGuiInt
MaxGeneration == 6     \* the window steps while the generation count is below this
MaxShiftOut == 3       \* shift amounts go MaxShiftOut below 0 and MaxShiftOut above 63
MaxVecLen == 2         \* vector shift amounts have 1 .. MaxVecLen components     \* explicit expand() in SpecCache is offered below this layer

\* -------------------------------------------------------- program constants
NDIM == 1                            \* Dim1D
BRANCHES == 2 ^ NDIM                 \* NdTreeNode::BRANCHES
BRANCH_IDX_BITMASK == BRANCHES - 1   \* NdTreeNode::BRANCH_IDX_BITMASK
InitialLayer == 1                    \* NdTree::new: cache.get_empty_node(1)
FirstSimLayer == 2                   \* Simulation::new: Layer(2)
LayerBase == 1                       \* Layer::base: "the minimum layer is 1"

Axes == 1..NDIM
LayerLen(L) == 2 ^ L
\* The rules offered to Simulation::new: the radius, and the numbers of
\* nonzero neighbours at which a dead cell is born and a live cell survives.
Rules == {[radius |-> 1, birth |-> {1}, survive |-> {1}],
          [radius |-> 2, birth |-> {2}, survive |-> {1, 2}],
          [radius |-> 1, birth |-> {0, 2}, survive |-> {1}]}
Coords == (0 - MaxCoord - 1)..MaxCoord
Positions == [Axes -> Coords]
States == 0..MaxState
StepSizes == (0 - 1)..MaxStep
\* The positions at which get_cell is compared: they reach beyond every
\* rooted rectangle that set_cell and expand() up to MaxLayer produce.
CheckPositions == [Axes -> (0 - LayerLen(MaxLayer))..LayerLen(MaxLayer)]

\* The value of F at v, v being evaluated once.
Bind(v, F(_)) == CHOOSE r \in {F(x) : x \in {v}} : TRUE

\* --------------------------------------------------------------- vectors
VecRepeat(k) == [a \in Axes |-> k]
VecAddScalar(v, k) == [a \in Axes |-> v[a] + k]
VecSub(v, w) == [a \in Axes |-> v[a] - w[a]]

RECURSIVE IdxOf(_, _, _)
\* The flat index of the vector p in a cube of the given side, the lowest
\* axis varying fastest: sum over axes a <= k of p[a] * side^(a-1).
IdxOf(p, side, k) ==
    IF k = 0 THEN 0 ELSE p[k] * side ^ (k - 1) + IdxOf(p, side, k - 1)

\* The vector of the flat index i in a cube of the given side.
VecOf(i, side) == [a \in Axes |-> (i \div side ^ (a - 1)) % side]

\* ----------------------------------------------------------------- nodes
RECURSIVE LayerOfCells(_)
LayerOfCells(count) ==
    IF count <= 1 THEN 0 ELSE 1 + LayerOfCells(count \div BRANCHES)

NodeLayer(n) == LayerOfCells(Len(n))
NodeLen(n) == LayerLen(NodeLayer(n))
Population(n) == Cardinality({k \in DOMAIN n : n[k] # 0})
IsEmpty(n) == Population(n) = 0

\* Branch i (0-based) of a node: a node of the layer below, or a single cell
\* (a sequence of length one) when the node is at layer 1.
Branch(n, i) ==
    LET m == Len(n) \div BRANCHES
    IN SubSeq(n, i * m + 1, (i + 1) * m)

\* cache.get_node(branches): the interned node with the given branches,
\* branches being a function on 0 .. BRANCHES-1.
GetNode(branches) ==
    LET m == Len(branches[0])
    IN [k \in 1..(BRANCHES * m) |-> branches[(k - 1) \div m][((k - 1) % m) + 1]]

\* cache.get_empty_node(layer)
GetEmptyNode(L) == [k \in 1..(BRANCHES ^ L) |-> 0]

\* cache.get_empty_branch(layer): the empty node of the layer, or the
\* default cell at layer 0.
GetEmptyBranch(L) == GetEmptyNode(L)

\* The branch index of the position p inside a node of layer L: bit a-1 is
\* set when p lies in the upper half along axis a.
BranchIdxOf(p, L) ==
    IdxOf([a \in Axes |-> IF p[a] >= LayerLen(L - 1) THEN 1 ELSE 0], 2, NDIM)

RECURSIVE NodeGetCell(_, _)
\* node.get_cell(pos), pos relative to the node's lower corner.
NodeGetCell(n, p) ==
    IF Len(n) = 1 THEN n[1]
    ELSE LET L == NodeLayer(n)
         IN NodeGetCell(Branch(n, BranchIdxOf(p, L)),
                        [a \in Axes |-> p[a] % LayerLen(L - 1)])

RECURSIVE NodeSetCell(_, _, _)
\* node.set_cell(cache, pos, state): path copy from the node to the cell.
NodeSetCell(n, p, c) ==
    IF Len(n) = 1 THEN <<c>>
    ELSE LET L == NodeLayer(n)
             i == BranchIdxOf(p, L)
         IN Bind(NodeSetCell(Branch(n, i),
                             [a \in Axes |-> p[a] % LayerLen(L - 1)], c),
                 LAMBDA sub : GetNode([j \in 0..(BRANCHES - 1) |->
                                          IF j = i THEN sub ELSE Branch(n, j)]))

RECURSIVE PathNodes(_, _)
\* The nodes on the path from n down to the cell at p: the nodes that a
\* path copy ending in n interns.
PathNodes(n, p) ==
    IF Len(n) = 1 THEN {}
    ELSE LET L == NodeLayer(n)
         IN {n} \cup PathNodes(Branch(n, BranchIdxOf(p, L)),
                               [a \in Axes |-> p[a] % LayerLen(L - 1)])

\* node.get_inner_node(cache): the node one layer down, centered on n; its
\* branch i is the branch of n's branch i that is closest to the center.
GetInnerNode(n) ==
    GetNode([i \in 0..(BRANCHES - 1) |->
                Branch(Branch(n, i), BRANCH_IDX_BITMASK - i)])

\* ------------------------------------------------------------- tree slice
\* slice.rect().contains(pos)
RectContains(rt, off, p) ==
    \A a \in Axes : off[a] <= p[a] /\ p[a] < off[a] + NodeLen(rt)

\* slice.get_cell(pos).unwrap_or_default()
GetCell(rt, off, p) ==
    IF RectContains(rt, off, p) THEN NodeGetCell(rt, VecSub(p, off)) ELSE 0

\* ------------------------------------------------------------------ tree
\* A tree is [root, offset, nodes]: the slice's root and offset, and the
\* node table of the tree's cache.

\* The empty nodes that cache.get_empty_node(L) interns.
EmptyNodesUpTo(L) == {GetEmptyNode(k) : k \in 1..L}

\* NdTree::new
NewTree ==
    [root |-> GetEmptyNode(InitialLayer),
     offset |-> VecAddScalar(VecRepeat(0), 0 - 1),
     nodes |-> EmptyNodesUpTo(InitialLayer)]

\* tree.set_root(new_root)
SetRoot(t, new_root) == [t EXCEPT !.root = new_root]

\* set_root_centered() that leaves the offset where it was.
SetRootCentered_KeepOffset(t, new_root) == SetRoot(t, new_root)

\* tree.set_root_centered(new_root)
SetRootCentered(t, new_root) ==
    LET off1 == VecAddScalar(t.offset, NodeLen(t.root) \div 2)
        off2 == VecAddScalar(off1, 0 - (NodeLen(new_root) \div 2))
    IN [SetRoot(t, new_root) EXCEPT !.offset = off2]

\* expand() with the old branch kept at its own index instead of the
\* opposite one.
ExpandBranch_SameIndex(t, branch_idx) ==
    LET old_branch == Branch(t.root, branch_idx)
        inner_branches == [j \in 0..(BRANCHES - 1) |->
            IF j = branch_idx THEN old_branch
            ELSE GetEmptyBranch(NodeLayer(old_branch))]
    IN GetNode(inner_branches)

\* The interior of the closure of expand(): the new branch that replaces
\* the old branch branch_idx.
ExpandBranch(t, branch_idx) ==
    LET old_branch == Branch(t.root, branch_idx)
        opposite_branch_idx == BRANCH_IDX_BITMASK - branch_idx
        inner_branches == [j \in 0..(BRANCHES - 1) |->
            IF j = opposite_branch_idx THEN old_branch
            ELSE GetEmptyBranch(NodeLayer(old_branch))]
    IN GetNode(inner_branches)

\* expand() that puts the whole old root in every branch of the new root.
Expand_RootInEveryBranch(t) ==
    Bind(GetNode([i \in 0..(BRANCHES - 1) |-> t.root]), LAMBDA new_root :
      [root |-> new_root,
       offset |-> VecAddScalar(t.offset, 0 - (NodeLen(new_root) \div 4)),
       nodes |-> t.nodes \cup {new_root}])

\* tree.expand()
Expand(t) ==
    Bind([i \in 0..(BRANCHES - 1) |-> ExpandBranch(t, i)], LAMBDA new_branches :
      Bind(GetNode(new_branches), LAMBDA new_root :
        [root |-> new_root,
         offset |-> VecAddScalar(t.offset, 0 - (NodeLen(new_root) \div 4)),
         nodes |-> t.nodes \cup {new_root}
                     \cup {new_branches[i] : i \in 0..(BRANCHES - 1)}
                     \cup EmptyNodesUpTo(NodeLayer(t.root) - 1)]))

RECURSIVE ExpandToFrom(_, _, _)
\* The loop of expand_to(pos), entered with i expansions made: the tree on
\* return and the returned count.
ExpandToFrom(t, pos, i) ==
    IF RectContains(t.root, t.offset, pos) THEN [tree |-> t, count |-> i]
    ELSE Bind(Expand(t), LAMBDA e : ExpandToFrom(e, pos, i + 1))

\* expand_to(pos) with the count started at one.
ExpandTo_CountFromOne(t, pos) == ExpandToFrom(t, pos, 1)

\* tree.expand_to(pos)
ExpandTo(t, pos) == ExpandToFrom(t, pos, 0)

RECURSIVE ShrinkTree(_)
\* shrink() that accepts an inner node whose population is not larger than
\* the root's.
ShrinkTree_NotLarger(t) ==
    IF NodeLayer(t.root) = 1 THEN [tree |-> t, count |-> 0]
    ELSE Bind(GetInnerNode(t.root), LAMBDA new_node :
           IF Population(new_node) <= Population(t.root)
           THEN Bind(ShrinkTree(SetRootCentered(
                         [t EXCEPT !.nodes = @ \cup {new_node}], new_node)),
                     LAMBDA rest : [tree |-> rest.tree, count |-> 1 + rest.count])
           ELSE [tree |-> [t EXCEPT !.nodes = @ \cup {new_node}], count |-> 0])

\* tree.shrink(): the tree on return and the returned count.
ShrinkTree(t) ==
    IF NodeLayer(t.root) = 1 THEN [tree |-> t, count |-> 0]
    ELSE Bind(GetInnerNode(t.root), LAMBDA new_node :
           IF Population(new_node) = Population(t.root)
           THEN Bind(ShrinkTree(SetRootCentered(
                         [t EXCEPT !.nodes = @ \cup {new_node}], new_node)),
                     LAMBDA rest : [tree |-> rest.tree, count |-> 1 + rest.count])
           ELSE [tree |-> [t EXCEPT !.nodes = @ \cup {new_node}], count |-> 0])

\* set_cell() that takes the position relative to the offset the tree had
\* before expand_to().
SetCell_StaleOffset(t, pos, cell_state) ==
    Bind(ExpandTo(t, pos).tree, LAMBDA e :
      Bind(NodeSetCell(e.root, VecSub(pos, t.offset), cell_state),
           LAMBDA new_root :
             [e EXCEPT !.root = new_root,
                       !.nodes = @ \cup PathNodes(new_root,
                                                  VecSub(pos, t.offset))]))

\* tree.set_cell(pos, cell_state)
SetCell(t, pos, cell_state) ==
    Bind(ExpandTo(t, pos).tree, LAMBDA e :
      Bind(NodeSetCell(e.root, VecSub(pos, e.offset), cell_state),
           LAMBDA new_root :
             [e EXCEPT !.root = new_root,
                       !.nodes = @ \cup PathNodes(new_root,
                                                  VecSub(pos, e.offset))]))

\* ------------------------------------------------------------ simulation
RECURSIVE NextPowerOfTwoFrom(_, _)
NextPowerOfTwoFrom(p, r) == IF p >= r THEN p ELSE NextPowerOfTwoFrom(2 * p, r)

\* usize::next_power_of_two
NextPowerOfTwo(r) == NextPowerOfTwoFrom(1, r)

RECURSIVE TrailingZeros(_)
\* usize::trailing_zeros, of a positive number
TrailingZeros(x) == IF x % 2 = 1 THEN 0 ELSE 1 + TrailingZeros(x \div 2)

RECURSIVE Bits(_)
\* BigInt::bits, of a positive number: the number of binary digits
Bits(x) == IF x = 0 THEN 0 ELSE 1 + Bits(x \div 2)

\* The loop condition of Simulation::new with <= in place of <.
MinLayerTooSmall_OrEqual(L, r) == LayerLen(L) \div 4 <= r

\* The loop condition of Simulation::new:
\* min_layer.len().unwrap() / 4 < rule.radius()
MinLayerTooSmall(L, r) == LayerLen(L) \div 4 < r

RECURSIVE MinLayerFrom(_, _)
\* The loop of Simulation::new entered with min_layer = L
MinLayerFrom(L, r) ==
    IF MinLayerTooSmall(L, r) THEN MinLayerFrom(L + 1, r) ELSE L

\* Simulation::new: the minimum layer at which one generation is simulated
MinLayer(r) == MinLayerFrom(FirstSimLayer, r)

\* node.result() that never finds a result.
ResultsOf_None(results, node) == {e \in results : FALSE}

\* node.result(): the entries of the result table for the node (none or one)
ResultsOf(results, node) == {e \in results : e.node = node}

\* node.set_result(Some(ret)); gen records the generation count of the call
\* that stored the result (the table itself is keyed on the node alone).
SetResult(results, node, ret, gen) ==
    (results \ ResultsOf(results, node))
        \cup {[node |-> node, result |-> ret, gen |-> gen]}

\* node.as_non_leaf().unwrap().grandchild_at_index(i): the grandchild at the
\* flat index i of the cube of side 4 of grandchildren.
GrandchildAtIndex(node, i) ==
    LET p == VecOf(i, 4)
    IN Branch(Branch(node, IdxOf([a \in Axes |-> p[a] \div 2], 2, NDIM)),
              IdxOf([a \in Axes |-> p[a] % 2], 2, NDIM))

\* cache.join_nodes over NdRect::span(pos, pos + 1) of an array of nodes
\* (a function on the flat indices of a cube of the given side)
JoinAt(array, side, pos) ==
    GetNode([j \in 0..(BRANCHES - 1) |->
        array[IdxOf([a \in Axes |-> pos[a] + VecOf(j, 2)[a]], side, NDIM)]])

\* The state threaded through a simulation: the result table, the node
\* table, the log of memo hits and of set_result calls, and whether the
\* call is still running ("ok") or has panicked.
SimPanic(st, why) == [ret |-> <<>>, st |-> [st EXCEPT !.status = why]]
SimIntern(st, new_nodes) == [st EXCEPT !.nodes = @ \cup new_nodes]

RECURSIVE AdvanceInnerNode(_, _, _, _)
RECURSIVE AdvanceAll(_, _, _, _, _)

\* The first k nodes of ns advanced by g generations one after the other.
AdvanceAll(ns, k, g, st, min_layer) ==
    IF k = 0 THEN [rets |-> <<>>, st |-> st]
    ELSE Bind(AdvanceAll(ns, k - 1, g, st, min_layer), LAMBDA prev :
           IF prev.st.status # "ok" THEN prev
           ELSE Bind(AdvanceInnerNode(ns[k - 1], g,
                                      SimIntern(prev.st, {ns[k - 1]}),
                                      min_layer),
                     LAMBDA r : [rets |-> Append(prev.rets, r.ret),
                                 st |-> r.st]))

\* Steps 4 to 6 of the recursive case, from the results of step 3.
AdvanceOuter(half, t_outer, min_layer) ==
    IF half.st.status # "ok" THEN [ret |-> <<>>, st |-> half.st]
    ELSE
      LET half_simmed_quarter_size_nodes ==
              [i \in 0..(3 ^ NDIM - 1) |-> half.rets[i + 1]]
          half_simmed_half_size_nodes ==
              [i \in 0..(BRANCHES - 1) |->
                  JoinAt(half_simmed_quarter_size_nodes, 3, VecOf(i, 2))]
      IN Bind(AdvanceAll(half_simmed_half_size_nodes, BRANCHES, t_outer,
                         half.st, min_layer),
              LAMBDA full :
                IF full.st.status # "ok" THEN [ret |-> <<>>, st |-> full.st]
                ELSE Bind(GetNode([i \in 0..(BRANCHES - 1) |->
                                       full.rets[i + 1]]),
                          LAMBDA joined :
                            [ret |-> joined,
                             st |-> SimIntern(full.st, {joined})]))

\* The recursive case with all the generations given to the outer half.
AdvanceRecursive_OuterTakesAll(node, generations, st, min_layer) ==
    LET t_inner == 0
        t_outer == generations
    IN Bind([i \in 0..(BRANCHES * BRANCHES - 1) |-> GrandchildAtIndex(node, i)],
         LAMBDA unsimmed_quarter_size_nodes :
           Bind([i \in 0..(3 ^ NDIM - 1) |->
                    JoinAt(unsimmed_quarter_size_nodes, 4, VecOf(i, 3))],
             LAMBDA unsimmed_half_size_nodes :
               Bind(AdvanceAll(unsimmed_half_size_nodes, 3 ^ NDIM, t_inner,
                        SimIntern(st, {unsimmed_half_size_nodes[i] :
                                          i \in 0..(3 ^ NDIM - 1)}),
                        min_layer),
                    LAMBDA half : AdvanceOuter(half, t_outer, min_layer))))

\* The recursive case of advance_inner_node (steps 1 to 6).
AdvanceRecursive(node, generations, st, min_layer) ==
    LET t_inner == generations \div 2
        t_outer == generations - t_inner
    IN Bind([i \in 0..(BRANCHES * BRANCHES - 1) |-> GrandchildAtIndex(node, i)],
         LAMBDA unsimmed_quarter_size_nodes :
           Bind([i \in 0..(3 ^ NDIM - 1) |->
                    JoinAt(unsimmed_quarter_size_nodes, 4, VecOf(i, 3))],
             LAMBDA unsimmed_half_size_nodes :
               Bind(AdvanceAll(unsimmed_half_size_nodes, 3 ^ NDIM, t_inner,
                        SimIntern(st, {unsimmed_half_size_nodes[i] :
                                          i \in 0..(3 ^ NDIM - 1)}),
                        min_layer),
                    LAMBDA half : AdvanceOuter(half, t_outer, min_layer))))

\* advance_inner_node that returns an empty node itself instead of its child.
AdvanceCompute_EmptyReturnsNode(node, generations, st, min_layer) ==
    IF generations = 0
      THEN Bind(GetInnerNode(node), LAMBDA inner :
                [ret |-> inner, st |-> SimIntern(st, {inner})])
    ELSE IF IsEmpty(node)
      THEN [ret |-> node, st |-> st]
    ELSE IF NodeLayer(node) = min_layer
      THEN IF generations # 1
             THEN SimPanic(st, "assert_generations")
             ELSE SimPanic(st, "todo_one_generation")
    ELSE IF NodeLayer(node) - 1 <= LayerBase
      THEN SimPanic(st, "todo_multiple_generations")
    ELSE AdvanceRecursive(node, generations, st, min_layer)

\* The branches of advance_inner_node below the memo lookup: the value of
\* ret, or a panic.
AdvanceCompute(node, generations, st, min_layer) ==
    IF generations = 0
      THEN Bind(GetInnerNode(node), LAMBDA inner :
                [ret |-> inner, st |-> SimIntern(st, {inner})])
    ELSE IF IsEmpty(node)
      THEN IF NodeLayer(node) <= LayerBase
             THEN [ret |-> GetEmptyNode(NodeLayer(node) - 1), st |-> st]
             ELSE [ret |-> Branch(node, 0), st |-> st]
    ELSE IF NodeLayer(node) = min_layer
      THEN IF generations # 1
             THEN SimPanic(st, "assert_generations")
             ELSE SimPanic(st, "todo_one_generation")
    ELSE IF NodeLayer(node) - 1 <= LayerBase
      THEN SimPanic(st, "todo_multiple_generations")
    ELSE AdvanceRecursive(node, generations, st, min_layer)

\* advance_inner_node that returns and stores its argument.
AdvanceInnerNode_ReturnsNode(node, generations, st0, min_layer) ==
    Bind([st0 EXCEPT !.calls = @ \cup {[layer |-> NodeLayer(node),
                                        gen |-> generations,
                                        caller |-> st0.caller]}],
      LAMBDA st :
        IF NodeLayer(node) < min_layer
          THEN SimPanic(st, "assert_layer")
        ELSE IF ResultsOf(st.results, node) # {}
          THEN Bind(CHOOSE e \in ResultsOf(st.results, node) : TRUE, LAMBDA e :
                 [ret |-> e.result,
                  st |-> [st EXCEPT !.hits = @ \cup
                      {[node |-> node, stored |-> e.gen,
                        asked |-> generations]}]])
        ELSE Bind(AdvanceCompute(node, generations,
                                 [st EXCEPT !.caller = NodeLayer(node)],
                                 min_layer),
               LAMBDA c :
                 IF c.st.status # "ok" THEN c
                 ELSE [ret |-> node,
                       st |-> [c.st EXCEPT
                           !.results = SetResult(@, node, node, generations),
                           !.sets = @ \cup
                              {[node |-> node, result |-> node,
                                gen |-> generations,
                                had |-> ResultsOf(c.st.results, node) # {}]},
                           !.caller = st.caller]]))

\* Simulation::advance_inner_node.  The state st carries the result table,
\* and the logs of the step: calls has the layer and the generations of
\* every call with the layer of the node of the call that made it (0 for
\* the call made by step), hits the memo
\* hits, sets the set_result calls, each with whether the node had a result
\* just before it.
AdvanceInnerNode(node, generations, st0, min_layer) ==
    Bind([st0 EXCEPT !.calls = @ \cup {[layer |-> NodeLayer(node),
                                        gen |-> generations,
                                        caller |-> st0.caller]}],
      LAMBDA st :
        IF NodeLayer(node) < min_layer
          THEN SimPanic(st, "assert_layer")
        ELSE IF ResultsOf(st.results, node) # {}
          THEN Bind(CHOOSE e \in ResultsOf(st.results, node) : TRUE, LAMBDA e :
                 [ret |-> e.result,
                  st |-> [st EXCEPT !.hits = @ \cup
                      {[node |-> node, stored |-> e.gen,
                        asked |-> generations]}]])
        ELSE Bind(AdvanceCompute(node, generations,
                                 [st EXCEPT !.caller = NodeLayer(node)],
                                 min_layer),
               LAMBDA c :
                 IF c.st.status # "ok" THEN c
                 ELSE [ret |-> c.ret,
                       st |-> [c.st EXCEPT
                           !.results = SetResult(@, node, c.ret, generations),
                           !.sets = @ \cup
                              {[node |-> node, result |-> c.ret,
                                gen |-> generations,
                                had |-> ResultsOf(c.st.results, node) # {}]},
                           !.caller = st.caller]]))

\* min_expansion_distance with the step size left out.
MinExpansionDistance_RadiusOnly(r, step_size) ==
    LET radius_log2 == TrailingZeros(NextPowerOfTwo(r))
    IN 2 ^ radius_log2

\* min_expansion_distance of step()
MinExpansionDistance(r, step_size) ==
    LET radius_log2 == TrailingZeros(NextPowerOfTwo(r))
        step_size_log2 == Bits(step_size)
    IN 2 ^ (radius_log2 + step_size_log2)

RECURSIVE ExpandLoop(_, _, _)
\* The while loop of step() with the comparison turned around.
ExpandLoop_Flipped(t, expansion_distance, min_expansion_distance) ==
    IF expansion_distance > min_expansion_distance
      THEN Bind(Expand(t), LAMBDA e :
             ExpandLoop(e, expansion_distance + NodeLen(e.root) \div 4,
                        min_expansion_distance))
      ELSE [tree |-> t, expansion_distance |-> expansion_distance]

\* The while loop of step(): the tree and expansion_distance when the loop
\* exits.
ExpandLoop(t, expansion_distance, min_expansion_distance) ==
    IF expansion_distance < min_expansion_distance
      THEN Bind(Expand(t), LAMBDA e :
             ExpandLoop(e, expansion_distance + NodeLen(e.root) \div 4,
                        min_expansion_distance))
      ELSE [tree |-> t, expansion_distance |-> expansion_distance]

\* The expansion phase of step(): the loop and the one more expand().
ExpandForStep(t, r, step_size) ==
    Expand(ExpandLoop(t, 0, MinExpansionDistance(r, step_size)).tree)

\* The end of step() without the shrink.
StepFinish_NoShrink(e2, adv) ==
    IF adv.st.status # "ok"
      THEN [tree |-> [e2 EXCEPT !.nodes = adv.st.nodes],
            results |-> adv.st.results, hits |-> adv.st.hits,
            sets |-> adv.st.sets, calls |-> adv.st.calls,
            status |-> adv.st.status]
      ELSE [tree |-> SetRoot([e2 EXCEPT !.nodes = adv.st.nodes], adv.ret),
            results |-> adv.st.results, hits |-> adv.st.hits,
            sets |-> adv.st.sets, calls |-> adv.st.calls, status |-> "ok"]

\* The end of step(): set_root and shrink after a completed simulation, or
\* the tree as the panic leaves it.
StepFinish(e2, adv) ==
    IF adv.st.status # "ok"
      THEN [tree |-> [e2 EXCEPT !.nodes = adv.st.nodes],
            results |-> adv.st.results, hits |-> adv.st.hits,
            sets |-> adv.st.sets, calls |-> adv.st.calls,
            status |-> adv.st.status]
      ELSE [tree |-> ShrinkTree(SetRoot([e2 EXCEPT !.nodes = adv.st.nodes],
                                        adv.ret)).tree,
            results |-> adv.st.results, hits |-> adv.st.hits,
            sets |-> adv.st.sets, calls |-> adv.st.calls, status |-> "ok"]

\* step() asserting a non-negative step size instead of a positive one.
Step_NonNegative(t, results, r, step_size) ==
    IF step_size < 0
      THEN [tree |-> t, results |-> results, hits |-> {}, sets |-> {},
            calls |-> {}, status |-> "assert_step_size"]
    ELSE
      Bind(ExpandForStep(t, r, step_size), LAMBDA e2 :
        Bind(AdvanceInnerNode(e2.root, step_size,
                 [results |-> results, nodes |-> e2.nodes, hits |-> {},
                  sets |-> {}, calls |-> {}, caller |-> 0, status |-> "ok"],
                 MinLayer(r)),
             LAMBDA adv : StepFinish(e2, adv)))

\* Simulation::step(tree, step_size) for a rule of the given radius, run on
\* the tree t and the result table results: the tree and the tables when
\* the call returns or panics.
Step(t, results, r, step_size) ==
    IF step_size <= 0
      THEN [tree |-> t, results |-> results, hits |-> {}, sets |-> {},
            calls |-> {}, status |-> "assert_step_size"]
    ELSE
      Bind(ExpandForStep(t, r, step_size), LAMBDA e2 :
        Bind(AdvanceInnerNode(e2.root, step_size,
                 [results |-> results, nodes |-> e2.nodes, hits |-> {},
                  sets |-> {}, calls |-> {}, caller |-> 0, status |-> "ok"],
                 MinLayer(r)),
             LAMBDA adv : StepFinish(e2, adv)))

\* ------------------------------------------------------ the interning cache
\* The cache with node identities kept apart from node contents.  A cache is
\* [cache, empties]: cache is the table of interned nodes in the order of
\* their construction, a node's identity being its index and its entry the
\* sequence of its branches, <<"leaf", cell>> at layer 1 and <<"node", id>>
\* above; empties is the empty-node table, empties[L] being the identity of
\* the empty node of layer L.  A tree handle is [root, offset], root an
\* identity.
NewCache == [cache |-> <<>>, empties |-> <<>>]

RECURSIVE IdLayer(_, _)
\* node.layer
IdLayer(cache, id) ==
    IF cache[id][1][1] = "leaf" THEN 1 ELSE 1 + IdLayer(cache, cache[id][1][2])

\* NdTreeBranch::get_layer
BranchLayer(cache, branch) ==
    IF branch[1] = "leaf" THEN 0 ELSE IdLayer(cache, branch[2])

RECURSIVE IdContent(_, _)
\* The cells that the node covers, in the order of the content encoding.
IdContent(cache, id) ==
    GetNode([j \in 0..(BRANCHES - 1) |->
        IF cache[id][j + 1][1] = "leaf" THEN <<cache[id][j + 1][2]>>
        ELSE IdContent(cache, cache[id][j + 1][2])])

\* cache.get_node(branches) on the table: the node with these branches if
\* the table holds one, a new entry otherwise.
CacheGetNode(st, branches) ==
    LET hit == {i \in 1..Len(st.cache) : st.cache[i] = branches}
    IN IF hit # {} THEN [st |-> st, id |-> CHOOSE i \in hit : TRUE]
       ELSE [st |-> [st EXCEPT !.cache = Append(@, branches)],
             id |-> Len(st.cache) + 1]

RECURSIVE CacheGetEmptyNode(_, _)
\* cache.get_empty_node(layer) on the table: the entry of the empty-node
\* table, built from the empty node of the layer below when it is missing.
CacheGetEmptyNode(st, L) ==
    IF L <= Len(st.empties) THEN [st |-> st, id |-> st.empties[L]]
    ELSE IF L = 1
      THEN Bind(CacheGetNode(st, [j \in 1..BRANCHES |-> <<"leaf", 0>>]),
                LAMBDA g : [st |-> [g.st EXCEPT !.empties = Append(@, g.id)],
                            id |-> g.id])
    ELSE Bind(CacheGetEmptyNode(st, L - 1), LAMBDA below :
           Bind(CacheGetNode(below.st,
                             [j \in 1..BRANCHES |-> <<"node", below.id>>]),
                LAMBDA g : [st |-> [g.st EXCEPT !.empties = Append(@, g.id)],
                            id |-> g.id]))

\* cache.get_empty_branch(layer) on the table
CacheGetEmptyBranch(st, L) ==
    IF L = 0 THEN [st |-> st, branch |-> <<"leaf", 0>>]
    ELSE Bind(CacheGetEmptyNode(st, L), LAMBDA g :
                [st |-> g.st, branch |-> <<"node", g.id>>])

\* NdTree::new on a cache
InternedNewTree(st) ==
    Bind(CacheGetEmptyNode(st, InitialLayer), LAMBDA g :
      [st |-> g.st,
       tree |-> [root |-> g.id, offset |-> VecAddScalar(VecRepeat(0), 0 - 1)]])

RECURSIVE InternedExpandBranches(_, _, _)
\* The closure of expand() allocating each new branch without looking it up.
InternedExpandBranches_FreshInner(st, tr, k) ==
    IF k = 0 THEN [st |-> st, branches |-> <<>>]
    ELSE Bind(InternedExpandBranches(st, tr, k - 1), LAMBDA prev :
      Bind(prev.st.cache[tr.root][k], LAMBDA old_branch :
        Bind(CacheGetEmptyBranch(prev.st,
                                 BranchLayer(prev.st.cache, old_branch)),
             LAMBDA e :
               [st |-> [e.st EXCEPT !.cache = Append(@,
                          [j \in 1..BRANCHES |->
                              IF j - 1 = BRANCH_IDX_BITMASK - (k - 1)
                                THEN old_branch ELSE e.branch])],
                branches |-> Append(prev.branches,
                                    <<"node", Len(e.st.cache) + 1>>)])))

\* The first k branches that the closure of expand() builds.
InternedExpandBranches(st, tr, k) ==
    IF k = 0 THEN [st |-> st, branches |-> <<>>]
    ELSE Bind(InternedExpandBranches(st, tr, k - 1), LAMBDA prev :
      Bind(prev.st.cache[tr.root][k], LAMBDA old_branch :
        Bind(CacheGetEmptyBranch(prev.st,
                                 BranchLayer(prev.st.cache, old_branch)),
             LAMBDA e :
               Bind(CacheGetNode(e.st, [j \in 1..BRANCHES |->
                        IF j - 1 = BRANCH_IDX_BITMASK - (k - 1)
                          THEN old_branch ELSE e.branch]),
                    LAMBDA g : [st |-> g.st,
                                branches |-> Append(prev.branches,
                                                    <<"node", g.id>>)]))))

\* expand() that allocates the new root without looking it up.
InternedExpand_FreshRoot(st, tr) ==
    Bind(InternedExpandBranches(st, tr, BRANCHES), LAMBDA b :
      [st |-> [b.st EXCEPT !.cache = Append(@, b.branches)],
       tree |-> [root |-> Len(b.st.cache) + 1,
                 offset |-> VecAddScalar(tr.offset,
                     0 - (LayerLen(IdLayer(st.cache, tr.root) + 1) \div 4))]])

\* tree.expand() on identities
InternedExpand(st, tr) ==
    Bind(InternedExpandBranches(st, tr, BRANCHES), LAMBDA b :
      Bind(CacheGetNode(b.st, b.branches), LAMBDA g :
        [st |-> g.st,
         tree |-> [root |-> g.id,
                   offset |-> VecAddScalar(tr.offset,
                       0 - (LayerLen(IdLayer(g.st.cache, g.id)) \div 4))]]))

RECURSIVE InternedExpandTo(_, _, _)
\* tree.expand_to(pos) on identities
InternedExpandTo(st, tr, pos) ==
    IF \A a \in Axes : /\ tr.offset[a] <= pos[a]
                       /\ pos[a] < tr.offset[a]
                                      + LayerLen(IdLayer(st.cache, tr.root))
      THEN [st |-> st, tree |-> tr]
      ELSE Bind(InternedExpand(st, tr), LAMBDA e :
                  InternedExpandTo(e.st, e.tree, pos))

RECURSIVE IdSetCell(_, _, _, _)
\* node.set_cell(cache, pos, state) on identities: the path from the node
\* to the cell is interned again from the bottom up.
IdSetCell(st, id, p, c) ==
    LET L == IdLayer(st.cache, id)
        i == BranchIdxOf(p, L)
    IN IF L = 1
         THEN CacheGetNode(st, [st.cache[id] EXCEPT ![i + 1] = <<"leaf", c>>])
         ELSE Bind(IdSetCell(st, st.cache[id][i + 1][2],
                             [a \in Axes |-> p[a] % LayerLen(L - 1)], c),
                   LAMBDA sub :
                     CacheGetNode(sub.st, [st.cache[id] EXCEPT
                                              ![i + 1] = <<"node", sub.id>>]))

\* tree.set_cell(pos, cell_state) on identities
InternedSetCell(st, tr, pos, cell_state) ==
    Bind(InternedExpandTo(st, tr, pos), LAMBDA e :
      Bind(IdSetCell(e.st, e.tree.root, VecSub(pos, e.tree.offset), cell_state),
           LAMBDA g : [st |-> g.st,
                       tree |-> [e.tree EXCEPT !.root = g.id]]))

\* node.get_inner_node(cache) on identities, of a node above layer 1
IdGetInnerNode(st, id) ==
    CacheGetNode(st, [j \in 1..BRANCHES |->
        st.cache[st.cache[id][j][2]][BRANCH_IDX_BITMASK - (j - 1) + 1]])

RECURSIVE InternedShrink(_, _)
\* tree.shrink() on identities
InternedShrink(st, tr) ==
    IF IdLayer(st.cache, tr.root) = 1 THEN [st |-> st, tree |-> tr]
    ELSE Bind(IdGetInnerNode(st, tr.root), LAMBDA g :
           IF Population(IdContent(g.st.cache, g.id))
                = Population(IdContent(g.st.cache, tr.root))
             THEN InternedShrink(g.st,
                    [root |-> g.id,
                     offset |-> VecAddScalar(VecAddScalar(tr.offset,
                         LayerLen(IdLayer(g.st.cache, tr.root)) \div 2),
                         0 - (LayerLen(IdLayer(g.st.cache, g.id)) \div 2))])
             ELSE [st |-> g.st, tree |-> tr])

\* ------------------------------------------------- the simulation window
\* The values an input_int field can be given in a frame
GuiInts == (0 - MaxGuiInt)..MaxGuiInt

\* The buttons of the window; "none" when no button is pressed in the frame.
Buttons == {"none", "step_1", "step_n", "start_stop", "jump", "undo", "redo",
            "reset"}

\* ui::State when the window is first built: WindowState::default() and
\* a step size that the window does not choose.
InitState ==
    {[step_size |-> n, jump_to_gen |-> 0, generation |-> 0, is_running |-> FALSE]
        : n \in GuiInts}

\* The state while the window has not been built
ClosedWindowState ==
    [step_size |-> 1, jump_to_gen |-> 0, generation |-> 0, is_running |-> FALSE]

\* The step size field with no clamp.
ClampStepSize_None(sim_step_size) == sim_step_size

\* The clamp of the "Sim step" field
ClampStepSize(sim_step_size) ==
    IF sim_step_size <= 0 THEN 1 ELSE sim_step_size

\* state.step(n), state.step_no_cache_clear(n), state.step_step_size(): the
\* stepper is invoked with n and the generation count goes up by n.  The
\* log keeps the button and the value its field had in the frame.
GuiStep(g, by, field, n) ==
    [state |-> [g.state EXCEPT !.generation = @ + n],
     steps |-> Append(g.steps, [by |-> by, field |-> field, n |-> n])]

\* The "Step 1 generation" button
GuiStepOne(g, button) ==
    IF button = "step_1" THEN GuiStep(g, button, 1, 1) ELSE g

\* The "Sim step" field and the "Step N generations" button, the field
\* left at sim_step_size by the user.
GuiStepSize(g, button, sim_step_size) ==
    LET clamped == ClampStepSize(sim_step_size)
        stored == IF g.state.step_size # clamped
                    THEN [g EXCEPT !.state.step_size = clamped]
                    ELSE g
    IN IF button = "step_n"
         THEN GuiStep(stored, button, sim_step_size, stored.state.step_size)
         ELSE stored

\* The "Start"/"Stop" button
GuiStartStop(g, button) ==
    IF button = "start_stop"
      THEN [g EXCEPT !.state.is_running = ~g.state.is_running]
      ELSE g

\* The "Jump to" field and the "Jump to generation" button, the field left
\* at jump_to_gen_i32 by the user.
GuiJump(g, button, jump_to_gen_i32) ==
    LET jump_to_gen == IF jump_to_gen_i32 <= g.state.generation
                         THEN g.state.generation ELSE jump_to_gen_i32
        held == [g EXCEPT !.state.jump_to_gen = jump_to_gen]
    IN IF button = "jump" /\ g.state.generation < jump_to_gen
         THEN GuiStep(held, button, jump_to_gen_i32,
                      jump_to_gen - g.state.generation)
         ELSE held

\* The "Undo", "Redo" and "Reset" buttons: the generation count becomes
\* gen, a count of the history for undo and redo and 0 for reset.
GuiHistory(g, button, gen) ==
    IF button \in {"undo", "redo"} THEN [g EXCEPT !.state.generation = gen]
    ELSE IF button = "reset"
      THEN [g EXCEPT !.state.generation = 0, !.state.is_running = FALSE]
    ELSE g

\* gui::simulation::build for one frame with the window visible
Build(st, button, sim_step_size, jump_to_gen_i32, gen) ==
    GuiHistory(
      GuiJump(
        GuiStartStop(
          GuiStepSize(GuiStepOne([state |-> st, steps |-> <<>>], button),
                      button, sim_step_size),
          button),
        button, jump_to_gen_i32),
      button, gen)

\* ------------------------------------------------- the bitshift check
\* types::INT_BITS
INT_BITS == 64

\* IntPredicate::ULT on two's complement integers of one width: a negative
\* value is above every non-negative one.
UnsignedLessThan(a, b) ==
    IF (a >= 0) = (b >= 0) THEN a < b ELSE a >= 0

\* build_int_compare(IntPredicate::ULT, lhs, rhs) on integers or, component
\* by component, on vectors (sequences) of one length
BuildIntCompareULT(lhs, rhs, is_vec) ==
    IF is_vec THEN [k \in 1..Len(lhs) |-> UnsignedLessThan(lhs[k], rhs[k])]
    ELSE UnsignedLessThan(lhs, rhs)

\* build_vector_cast(Value::Int(i), len)
BuildVectorCast(i, len) == [k \in 1..len |-> i]

\* build_reduce("or", value): the integer itself, or the OR of the
\* components of a vector
BuildReduceOr(value, is_vec) ==
    IF is_vec THEN \E k \in 1..Len(value) : value[k] ELSE value

\* build_conditional(condition_value, build_if_true, build_if_false): the
\* block that runs
BuildConditional(condition_value, if_true, if_false) ==
    IF condition_value THEN if_true ELSE if_false

\* build_generic_bitshift_check: "shift" when execution goes on to the
\* shift, "overflow" when on_overflow runs
BuildGenericBitshiftCheck(shift_amt, max_shift, is_vec) ==
    LET is_overflow == BuildReduceOr(
            BuildIntCompareULT(shift_amt, max_shift, is_vec), is_vec)
    IN BuildConditional(is_overflow, "shift", "overflow")

\* build_bitshift_int_check
BuildBitshiftIntCheck(shift_amt) ==
    BuildGenericBitshiftCheck(shift_amt, INT_BITS, FALSE)

\* build_bitshift_vec_check
BuildBitshiftVecCheck(shift_amt) ==
    BuildGenericBitshiftCheck(shift_amt,
                              BuildVectorCast(INT_BITS, Len(shift_amt)), TRUE)

\* ---------------------------------------------------------- state machine
\* A step that panics unwinds to its caller, which keeps the tree handle and
\* the cache as the panic left them and may go on using them.
VARIABLES
    root,      \* tree.slice.root
    offset,    \* tree.slice.offset
    results,   \* the result table of the cache
    rule,      \* the simulation's rule
    hashmap,   \* the state last assigned to each position by set_cell
    op,        \* the last operation and its arguments
    pre,       \* the tree and the result table before the last operation
    status,    \* "ok", or the panic that ended the last operation
    interned,  \* the nodes the last operation interned in the cache
    hits,      \* the memo hits of the last step
    sets,      \* the set_result calls of the last step
    calls,     \* the advance_inner_node calls of the last step
    ret,       \* the count returned by the last shrink
    nsets,     \* the number of set_cell calls so far
    nsteps,    \* the number of step calls so far
    ndcache,   \* a cache with explicit node identities
    ndtrees,   \* the handles of the trees that share ndcache
    cacheop,   \* the last operation on a tree of ndtrees
    ncacheops, \* the number of operations on the trees of ndtrees so far
    min_layer, \* the simulation's min_layer
    old_rect,  \* the side of the rectangle kept by test_ndtree_set_get, or 0
    state,     \* ui::State: step_size, jump_to_gen, generation count, running
    gui_steps, \* the step sizes the last frame passed to the stepper
    shift      \* the last bitshift check built: its argument and the path taken

treevars == <<root, offset, results, hashmap, op, pre, status, interned,
              hits, sets, calls, ret, nsets, nsteps>>
simvars == <<treevars, rule, min_layer>>
cachevars == <<ndcache, ndtrees, cacheop, ncacheops>>
testvars == <<old_rect>>
guivars == <<state, gui_steps>>
shiftvars == <<shift>>
auxvars == <<testvars, guivars, shiftvars>>
vars == <<simvars, cachevars, auxvars>>

\* The trees that share ndcache
TreeIds == 1..2

\* The tree handle, with an empty log of interned nodes.
Tree == [root |-> root, offset |-> offset, nodes |-> {}]
Snapshot == [root |-> root, offset |-> offset, results |-> results]
Op(name, pos, arg) == [name |-> name, pos |-> pos, arg |-> arg]

\* A new tree, an empty result table and two new trees on a shared cache.
InitTrees ==
    /\ root = NewTree.root
    /\ offset = NewTree.offset
    /\ results = {}
    /\ hashmap = [p \in Positions |-> 0]
    /\ op = Op("new", VecRepeat(0), 0)
    /\ pre = [root |-> NewTree.root, offset |-> NewTree.offset, results |-> {}]
    /\ status = "ok"
    /\ interned = NewTree.nodes
    /\ hits = {}
    /\ sets = {}
    /\ calls = {}
    /\ ret = 0
    /\ nsets = 0
    /\ nsteps = 0
    /\ \E t1 \in {InternedNewTree(NewCache)} :
       \E t2 \in {InternedNewTree(t1.st)} :
          /\ ndcache = t2.st
          /\ ndtrees = [k \in TreeIds |-> IF k = 1 THEN t1.tree ELSE t2.tree]
    /\ cacheop = [name |-> "new", tree |-> 0, pos |-> VecRepeat(0), arg |-> 0]
    /\ ncacheops = 0
    /\ old_rect = 0
    /\ gui_steps = <<>>
    /\ shift = [kind |-> "none", amt |-> 0, path |-> "none"]

\* After Simulation::new(rule) and NdTree::new; the window is not used and
\* its state is held at one value.
Init ==
    /\ rule \in Rules
    /\ min_layer = MinLayer(rule.radius)
    /\ InitTrees
    /\ state = ClosedWindowState

\* The tree is replaced by t; the simulation's tables are left alone.
TreeOp(t, o, count) ==
    /\ root' = t.root
    /\ offset' = t.offset
    /\ interned' = t.nodes
    /\ op' = o
    /\ pre' = Snapshot
    /\ status' = "ok"
    /\ hits' = {}
    /\ sets' = {}
    /\ calls' = {}
    /\ ret' = count
    /\ UNCHANGED <<results, rule, min_layer, nsteps>>

ActSetCell(pos, cell_state, max_sets) ==
    /\ nsets < max_sets
    /\ nsets' = nsets + 1
    /\ \E t \in {SetCell(Tree, pos, cell_state)} :
          TreeOp(t, Op("set_cell", pos, cell_state), 0)
    /\ hashmap' = [hashmap EXCEPT ![pos] = cell_state]

\* expand() that leaves the offset where it was.
ActExpand_KeepOffset(max_layer) ==
    /\ NodeLayer(root) < max_layer
    /\ \E t \in {[Expand(Tree) EXCEPT !.offset = offset]} :
          TreeOp(t, Op("expand", VecRepeat(0), 0), 0)
    /\ UNCHANGED <<hashmap, nsets>>

\* tree.expand() on a tree below the layer bound
ActExpand(max_layer) ==
    /\ NodeLayer(root) < max_layer
    /\ \E t \in {Expand(Tree)} : TreeOp(t, Op("expand", VecRepeat(0), 0), 0)
    /\ UNCHANGED <<hashmap, nsets>>

\* tree.expand_to(pos) on a tree below the layer bound
ActExpandTo(pos, max_layer) ==
    /\ NodeLayer(root) < max_layer
    /\ \E e \in {ExpandTo(Tree, pos)} :
          TreeOp(e.tree, Op("expand_to", pos, 0), e.count)
    /\ UNCHANGED <<hashmap, nsets>>

\* shrink() that stops after one layer.
ActShrink_Once ==
    /\ \E s \in {IF NodeLayer(root) = 1
                     \/ Population(GetInnerNode(root)) # Population(root)
                   THEN [tree |-> Tree, count |-> 0]
                   ELSE [tree |-> SetRootCentered(Tree, GetInnerNode(root)),
                         count |-> 1]} :
          TreeOp(s.tree, Op("shrink", VecRepeat(0), 0), s.count)
    /\ UNCHANGED <<hashmap, nsets>>

\* tree.shrink()
ActShrink ==
    /\ \E s \in {ShrinkTree(Tree)} :
          TreeOp(s.tree, Op("shrink", VecRepeat(0), 0), s.count)
    /\ UNCHANGED <<hashmap, nsets>>

ActStep(step_size, max_steps, max_layer) ==
    /\ nsteps < max_steps
    /\ NodeLayer(root) <= max_layer
    /\ \E s \in {Step(Tree, results, rule.radius, step_size)} :
          /\ root' = s.tree.root
          /\ offset' = s.tree.offset
          /\ interned' = s.tree.nodes
          /\ results' = s.results
          /\ hits' = s.hits
          /\ sets' = s.sets
          /\ calls' = s.calls
          /\ status' = s.status
    /\ op' = Op("step", VecRepeat(0), step_size)
    /\ pre' = Snapshot
    /\ ret' = 0
    /\ nsteps' = nsteps + 1
    /\ UNCHANGED <<rule, min_layer, hashmap, nsets>>

\* The tree operations and the stepper.
Next ==
    /\ \/ \E pos \in Positions, cell_state \in States :
             ActSetCell(pos, cell_state, MaxSimSets)
       \/ ActExpand(MaxSimLayer)
       \/ ActShrink
       \/ \E step_size \in StepSizes :
             ActStep(step_size, MaxSteps, MaxSimLayer)
    /\ UNCHANGED <<cachevars, auxvars>>

Spec == Init /\ [][Next]_vars

\* The positions offered to expand_to
ExpandToPositions == [Axes -> (0 - MaxExpandTo - 1)..MaxExpandTo]

\* The tree operations alone: no step is taken.
NextTree ==
    /\ \/ \E pos \in Positions, cell_state \in States :
             ActSetCell(pos, cell_state, MaxSets)
       \/ ActExpand(MaxLayer)
       \/ \E pos \in ExpandToPositions : ActExpandTo(pos, MaxLayer)
       \/ ActShrink
    /\ UNCHANGED <<cachevars, auxvars>>

SpecTree == Init /\ [][NextTree]_vars

\* tests::test_ndtree_set_get from the end of its set_cell loop: the side of
\* the rectangle is kept in old_rect, the tree is expanded any number of
\* times and then shrunk once.
TestOldRect ==
    /\ old_rect = 0
    /\ old_rect' = NodeLen(root)
    /\ UNCHANGED <<simvars, cachevars, guivars, shiftvars>>

NextShrinkTest ==
    \/ /\ old_rect = 0
       /\ \E pos \in Positions, cell_state \in States :
             ActSetCell(pos, cell_state, MaxSets)
       /\ UNCHANGED <<cachevars, auxvars>>
    \/ TestOldRect
    \/ /\ old_rect > 0
       /\ op.name # "shrink"
       /\ ActExpand(MaxLayer)
       /\ UNCHANGED <<cachevars, auxvars>>
    \/ /\ old_rect > 0
       /\ op.name # "shrink"
       /\ ActShrink
       /\ UNCHANGED <<cachevars, auxvars>>

SpecShrinkTest == Init /\ [][NextShrinkTest]_vars

\* One frame of the simulation window: the user may have typed into either
\* field and may have pressed one button.  The fields are i32; the values
\* here are far inside its range, where to_i32 and the casts change nothing.
Frame(button, typed_step, typed_jump, gen) ==
    /\ state.generation < MaxGeneration
    /\ \E sim_step_size \in {state.step_size, typed_step},
          jump_to_gen_i32 \in {state.jump_to_gen, typed_jump} :
       \E g \in {Build(state, button, sim_step_size, jump_to_gen_i32, gen)} :
          /\ state' = g.state
          /\ gui_steps' = g.steps
    /\ UNCHANGED <<simvars, cachevars, testvars, shiftvars>>

NextGui ==
    \E button \in Buttons, typed_step \in GuiInts, typed_jump \in GuiInts :
        \E gen \in IF button \in {"undo", "redo"} THEN 0..MaxGeneration ELSE {0} :
            Frame(button, typed_step, typed_jump, gen)

InitGui ==
    /\ rule \in Rules
    /\ rule.radius = 2
    /\ min_layer = MinLayer(rule.radius)
    /\ InitTrees
    /\ state \in InitState

SpecGui == InitGui /\ [][NextGui]_vars

\* The shift amounts: around 0 and around the bit width
ShiftAmounts ==
    ((0 - MaxShiftOut)..1) \cup ((INT_BITS - 2)..(INT_BITS + MaxShiftOut - 1))

ShiftVectors == UNION {[1..len -> ShiftAmounts] : len \in 1..MaxVecLen}

\* The code built by build_bitshift_int_check run on an integer
RunBitshiftIntCheck(shift_amt) ==
    /\ shift' = [kind |-> "int", amt |-> shift_amt,
                 path |-> BuildBitshiftIntCheck(shift_amt)]
    /\ UNCHANGED <<simvars, cachevars, testvars, guivars>>

\* The code built by build_bitshift_vec_check run on a vector
RunBitshiftVecCheck(shift_amt) ==
    /\ shift' = [kind |-> "vec", amt |-> shift_amt,
                 path |-> BuildBitshiftVecCheck(shift_amt)]
    /\ UNCHANGED <<simvars, cachevars, testvars, guivars>>

NextShift ==
    \/ \E shift_amt \in ShiftAmounts : RunBitshiftIntCheck(shift_amt)
    \/ \E shift_amt \in ShiftVectors : RunBitshiftVecCheck(shift_amt)

InitShift == Init /\ rule.radius = 2

SpecShift == InitShift /\ [][NextShift]_vars

\* Steps that reuse the cache of earlier steps: one rule of radius 1, cells
\* 0 and 1 written next to the origin, steps of one and of two generations.
ReusePositions == {VecRepeat(0 - 1), VecRepeat(1)}
ReuseStepSizes == 1..2

InitReuse == Init /\ rule.radius = 1 /\ 0 \notin rule.birth

NextReuse ==
    /\ \/ \E pos \in ReusePositions, cell_state \in 0..1 :
             ActSetCell(pos, cell_state, MaxReuseSets)
       \/ ActExpand(MaxReuseLayer)
       \/ ActShrink
       \/ \E step_size \in ReuseStepSizes :
             ActStep(step_size, MaxReuseSteps, MaxReuseLayer)
    /\ UNCHANGED <<cachevars, auxvars>>

SpecReuse == InitReuse /\ [][NextReuse]_vars

\* Simulation::new taken one loop iteration at a time, for rules of every
\* radius up to MaxRadius: min_layer starts at Layer(2) and goes to the
\* parent layer while the loop condition holds.
RadiusRules == {[radius |-> r, birth |-> {}, survive |-> {}] : r \in 0..MaxRadius}

InitNew ==
    /\ rule \in RadiusRules
    /\ min_layer = FirstSimLayer
    /\ InitTrees
    /\ state = ClosedWindowState

NewLoop ==
    /\ MinLayerTooSmall(min_layer, rule.radius)
    /\ min_layer' = min_layer + 1
    /\ UNCHANGED <<treevars, rule, cachevars, auxvars>>

NextNew == NewLoop

SpecNew == InitNew /\ [][NextNew]_vars

\* Two trees on one cache with explicit identities: set_cell, expand and
\* shrink on either tree.
CachePositions == [Axes -> (0 - 2)..1]
\* The cells of the trees on ndcache are booleans (0 and 1).
CacheStates == 0..1

CacheOp(k, name, pos, arg, r) ==
    /\ ncacheops < MaxCacheOps
    /\ ncacheops' = ncacheops + 1
    /\ ndcache' = r.st
    /\ ndtrees' = [ndtrees EXCEPT ![k] = r.tree]
    /\ cacheop' = [name |-> name, tree |-> k, pos |-> pos, arg |-> arg]

ActInternedSetCell(k, pos, cell_state) ==
    \E r \in {InternedSetCell(ndcache, ndtrees[k], pos, cell_state)} :
        CacheOp(k, "set_cell", pos, cell_state, r)

ActInternedExpand(k) ==
    /\ IdLayer(ndcache.cache, ndtrees[k].root) < MaxCacheLayer
    /\ \E r \in {InternedExpand(ndcache, ndtrees[k])} :
          CacheOp(k, "expand", VecRepeat(0), 0, r)

ActInternedShrink(k) ==
    \E r \in {InternedShrink(ndcache, ndtrees[k])} :
        CacheOp(k, "shrink", VecRepeat(0), 0, r)

\* cache.get_empty_node(L) called on the shared cache; no tree changes.
ActGetEmptyNode(L) ==
    /\ ncacheops < MaxCacheOps
    /\ ncacheops' = ncacheops + 1
    /\ \E g \in {CacheGetEmptyNode(ndcache, L)} :
          /\ ndcache' = g.st
          /\ cacheop' = [name |-> "get_empty_node", tree |-> 0,
                         pos |-> VecRepeat(0), arg |-> g.id]
    /\ UNCHANGED ndtrees

InitCache == Init /\ rule.radius = 2

NextCache ==
    /\ \/ \E k \in TreeIds, pos \in CachePositions, cell_state \in CacheStates :
             ActInternedSetCell(k, pos, cell_state)
       \/ \E k \in TreeIds : ActInternedExpand(k)
       \/ \E k \in TreeIds : ActInternedShrink(k)
       \/ \E L \in 1..MaxCacheLayer : ActGetEmptyNode(L)
    /\ UNCHANGED <<simvars, auxvars>>

SpecCache == InitCache /\ [][NextCache]_vars

\* ------------------------------------------------- reference and claims
\* The offsets of the neighbourhood of radius r
Neighbourhood(r) == [Axes -> (0 - r)..r]

\* The transition function of the rule applied to a neighbourhood nbhd, a
\* function from the offsets to cell states.
Transition(rl, nbhd) ==
    LET centre == nbhd[VecRepeat(0)]
        count == Cardinality({d \in DOMAIN nbhd :
                                 d # VecRepeat(0) /\ nbhd[d] # 0})
    IN IF centre = 0
         THEN (IF count \in rl.birth THEN 1 ELSE 0)
         ELSE (IF count \in rl.survive THEN centre ELSE 0)

RECURSIVE NaiveCell(_, _, _, _, _)
\* The cell at p after t applications of the transition function to the
\* whole grid that the tree (rt, off) holds.
NaiveCell(rt, off, rl, p, t) ==
    IF t = 0 THEN GetCell(rt, off, p)
    ELSE Transition(rl,
            [d \in Neighbourhood(rl.radius) |->
                NaiveCell(rt, off, rl, [a \in Axes |-> p[a] + d[a]], t - 1)])

\* The state last assigned to p by set_cell, 0 if there is none.
LastAssigned(p) == IF p \in Positions THEN hashmap[p] ELSE 0

SameCells(rt1, off1, rt2, off2) ==
    \A p \in CheckPositions : GetCell(rt1, off1, p) = GetCell(rt2, off2, p)

\* C1: after step(tree, t) with t > 0 the call has returned and get_cell at
\* every position is the state that t applications of the transition
\* function to the whole grid give.
C1_StepEqualsNaive ==
    (op.name = "step" /\ op.arg > 0) =>
        /\ status = "ok"
        /\ \A p \in CheckPositions :
              GetCell(root, offset, p)
                  = NaiveCell(pre.root, pre.offset, rule, p, op.arg)

\* C2: a memoized result is returned only to a call with the generation
\* count of the call that stored it.
C2_MemoKeyedOnGenerations == \A h \in hits : h.stored = h.asked

\* C3: get_cell returns the state last assigned to the position by set_cell,
\* and 0 at every position never assigned, inside or outside the rooted
\* rectangle.
C3_SetGetRoundTrip ==
    \A p \in CheckPositions : GetCell(root, offset, p) = LastAssigned(p)

\* C3 witness: a cell that set_cell had to expand the tree for holds a
\* nonzero state and has been overwritten with another nonzero state, while
\* unassigned positions lie inside and outside the rooted rectangle.
C3_Witness ==
    /\ op.name = "set_cell"
    /\ op.arg # 0
    /\ GetCell(pre.root, pre.offset, op.pos) \notin {0, op.arg}
    /\ ~RectContains(NewTree.root, NewTree.offset, op.pos)
    /\ \E p \in CheckPositions : ~RectContains(root, offset, p)
    /\ \E p \in Positions : RectContains(root, offset, p) /\ p # op.pos

\* C4: the root's population is the number of positions whose last assigned
\* state is nonzero.
C4_PopulationCountsNonzero ==
    Population(root) = Cardinality({p \in Positions : hashmap[p] # 0})

\* C4 witness: a nonzero cell has been overwritten with 0 and the
\* population went down by one.
C4_Witness ==
    /\ op.name = "set_cell"
    /\ op.arg = 0
    /\ Population(pre.root) = Population(root) + 1

\* C5: stepping by t1 and then by t2 gives the cells that one step by
\* t1 + t2 of the same tree gives.
C5_StepAdditivity ==
    \A t1, t2 \in 1..MaxStep :
        t1 + t2 <= MaxStep =>
            \E a \in {Step(Tree, results, rule.radius, t1)} :
            \E b \in {Step(a.tree, a.results, rule.radius, t2)} :
            \E c \in {Step(Tree, results, rule.radius, t1 + t2)} :
                /\ a.status = "ok" /\ b.status = "ok" /\ c.status = "ok"
                /\ SameCells(b.tree.root, b.tree.offset,
                             c.tree.root, c.tree.offset)

\* C6: a step gives the outcome and the cells that the same step of the same
\* tree gives on an empty result table, whatever earlier steps have left in
\* the table.
C6_StepIgnoresCache ==
    (op.name = "step" /\ op.arg > 0) =>
        \E f \in {Step([root |-> pre.root, offset |-> pre.offset, nodes |-> {}],
                       {}, rule.radius, op.arg)} :
            /\ (f.status = "ok") = (status = "ok")
            /\ SameCells(f.tree.root, f.tree.offset, root, offset)

\* C7: a step that does not complete leaves the root and the offset as they
\* were before the call.
C7_FailedStepLeavesTree ==
    (op.name = "step" /\ status # "ok") =>
        (root = pre.root /\ offset = pre.offset)

\* C8: step with t <= 0 is rejected before any expansion: the root, the
\* offset, the cells and the result table are those before the call, and no
\* node has been interned.
C8_NonPositiveStepRejected ==
    (op.name = "step" /\ op.arg <= 0) =>
        /\ status = "assert_step_size"
        /\ root = pre.root
        /\ offset = pre.offset
        /\ results = pre.results
        /\ interned = {}
        /\ SameCells(root, offset, pre.root, pre.offset)

\* C8 witness: step was called with t = 0 on a tree that holds a cell.
C8_Witness ==
    /\ op.name = "step"
    /\ op.arg = 0
    /\ ~IsEmpty(root)
    /\ status # "ok"

\* C9: for a rule that maps the all-zero neighbourhood to 0, a step of an
\* empty tree by t > 0 returns with an empty tree (population 0, get_cell 0
\* everywhere) and has interned empty nodes only.
C9_EmptyStaysEmpty ==
    (op.name = "step" /\ op.arg > 0 /\ IsEmpty(pre.root) /\ 0 \notin rule.birth) =>
        /\ status = "ok"
        /\ Population(root) = 0
        /\ \A p \in CheckPositions : GetCell(root, offset, p) = 0
        /\ \A n \in interned : IsEmpty(n)

\* C9 witness: an empty tree above layer 1 has been stepped by more than one
\* generation, and the step interned nodes.
C9_Witness ==
    /\ op.name = "step"
    /\ op.arg > 1
    /\ IsEmpty(pre.root)
    /\ NodeLayer(pre.root) > 1
    /\ 0 \notin rule.birth
    /\ status = "ok"
    /\ interned # {}

\* C10: after expand() get_cell is the same at every position, the root's
\* population is the same, and the root's layer is one more.
C10_ExpandPreservesContent ==
    (op.name = "expand") =>
        /\ SameCells(root, offset, pre.root, pre.offset)
        /\ Population(root) = Population(pre.root)
        /\ NodeLayer(root) = NodeLayer(pre.root) + 1

\* C10 witness: a tree with cells of two different nonzero states has been
\* expanded.
C10_Witness ==
    /\ op.name = "expand"
    /\ Population(root) >= 2
    /\ \E p, q \in Positions :
          /\ GetCell(root, offset, p) # 0
          /\ GetCell(root, offset, q) # 0
          /\ GetCell(root, offset, p) # GetCell(root, offset, q)

\* C11: after shrink() get_cell is the same at every position, the root's
\* population is the same, and the side of the rooted rectangle is at most
\* what it was; it is halved once for each shrink the call counted.
C11_ShrinkPreservesContent ==
    (op.name = "shrink") =>
        /\ SameCells(root, offset, pre.root, pre.offset)
        /\ Population(root) = Population(pre.root)
        /\ NodeLen(root) <= NodeLen(pre.root)
        /\ NodeLen(root) * 2 ^ ret = NodeLen(pre.root)

\* C11 witness: shrink() has gone down two layers on a tree that holds
\* a cell.
C11_Witness ==
    /\ op.name = "shrink"
    /\ ret >= 2
    /\ Population(root) > 0
    /\ NodeLen(root) < NodeLen(pre.root)

\* The identities of the nodes in ndcache
NodeIds == 1..Len(ndcache.cache)

\* C12: in one cache two nodes are the same interned object if and only if
\* they have the same content, and two trees that hold the same cells in
\* the same rectangle have the same root.
C12_InternedIffSameContent ==
    \E content \in {[i \in NodeIds |-> IdContent(ndcache.cache, i)]} :
        /\ \A i, j \in NodeIds : (i = j) <=> (content[i] = content[j])
        /\ \A k1, k2 \in TreeIds :
              (content[ndtrees[k1].root] = content[ndtrees[k2].root])
                => ndtrees[k1].root = ndtrees[k2].root

\* C12 witness: the same subpattern stands at two places of one tree (the
\* first and the last branch of its root are one non-empty node), and the
\* other tree holds that pattern as its root.
C12_Witness ==
    \E k1, k2 \in TreeIds :
        /\ k1 # k2
        /\ IdLayer(ndcache.cache, ndtrees[k1].root) >= 2
        /\ ndcache.cache[ndtrees[k1].root][1]
              = ndcache.cache[ndtrees[k1].root][BRANCHES]
        /\ ndcache.cache[ndtrees[k1].root][1] = <<"node", ndtrees[k2].root>>
        /\ ~IsEmpty(IdContent(ndcache.cache, ndtrees[k2].root))

\* The tree before the last operation
PreTree == [root |-> pre.root, offset |-> pre.offset, nodes |-> {}]

\* p is within the distance d of the rooted rectangle of (rt, off).
WithinDistance(rt, off, d, p) ==
    \A a \in Axes : off[a] - d <= p[a] /\ p[a] < off[a] + NodeLen(rt) + d

\* C13: after the expansion phase of step(tree, t) (the loop and the one more
\* expand) every position within the distance r * t of the rectangle the tree
\* had before the step lies in the centered inner node of the expanded root
\* and holds there the cell it held before; the accumulated
\* expansion_distance is at least r' * t', r and t rounded up to a power of
\* two.
C13_InfluenceInsideInnerNode ==
    (op.name = "step" /\ op.arg > 0) =>
        \E l \in {ExpandLoop(PreTree, 0,
                              MinExpansionDistance(rule.radius, op.arg))} :
        \E e2 \in {ExpandForStep(PreTree, rule.radius, op.arg)} :
        \E inner \in {GetInnerNode(e2.root)} :
        \E inner_offset \in {VecAddScalar(e2.offset, NodeLen(e2.root) \div 4)} :
            /\ e2 = Expand(l.tree)
            /\ l.expansion_distance
                  >= NextPowerOfTwo(rule.radius) * NextPowerOfTwo(op.arg)
            /\ \A p \in CheckPositions :
                  WithinDistance(pre.root, pre.offset, rule.radius * op.arg, p)
                    => /\ RectContains(inner, inner_offset, p)
                       /\ GetCell(inner, inner_offset, p)
                            = GetCell(pre.root, pre.offset, p)
            /\ status # "ok" => (root = e2.root /\ offset = e2.offset)

\* C13 witness: a tree above layer 1 that holds a cell has been stepped by
\* more than one generation under the rule of radius 2, and the expansion
\* phase has added three layers or more.
C13_Witness ==
    /\ op.name = "step"
    /\ op.arg >= 2
    /\ rule.radius = 2
    /\ ~IsEmpty(pre.root)
    /\ NodeLayer(pre.root) >= 2
    /\ status # "ok"
    /\ NodeLayer(root) >= NodeLayer(pre.root) + 3

\* The smallest k with 2^k >= x
CeilLog2(x) == CHOOSE k \in 0..x : 2 ^ k >= x /\ \A j \in 0..(k - 1) : 2 ^ j < x

\* C14: the min_expansion_distance that step(tree, t) computes for a rule
\* of radius r is 2^(ceil(log2 r) + ceil(log2 t)).
C14_MinExpansionDistanceCeil ==
    (op.name = "step" /\ op.arg > 0) =>
        MinExpansionDistance(rule.radius, op.arg)
            = 2 ^ (CeilLog2(rule.radius) + CeilLog2(op.arg))

\* C15: after a step call of any size t > 0 the root's population is at
\* most the population before the call times (2 * r + 1)^NDIM.
C15_PopulationBound ==
    (op.name = "step" /\ op.arg > 0) =>
        Population(root)
            <= Population(pre.root) * (2 * rule.radius + 1) ^ NDIM

\* C15 witness: a step of a tree that holds a cell has returned, and the
\* tree it left holds a cell.
C15_Witness ==
    /\ op.name = "step"
    /\ op.arg > 0
    /\ status = "ok"
    /\ Population(pre.root) > 0
    /\ Population(root) > 0

\* C16: every node that advance_inner_node returns for a node of layer L is
\* of layer L - 1: every result edge in the cache, and every result stored
\* by the last step, goes from layer L to layer L - 1, and a step that
\* returns has stored or found such an edge for the expanded root.
C16_ResultOneLayerDown ==
    /\ \A e \in results : NodeLayer(e.result) = NodeLayer(e.node) - 1
    /\ \A e \in sets : NodeLayer(e.result) = NodeLayer(e.node) - 1
    /\ \A h \in hits : ResultsOf(results, h.node) # {}
    /\ (op.name = "step" /\ status = "ok") =>
          ResultsOf(results,
                    ExpandForStep(PreTree, rule.radius, op.arg).root) # {}

\* C16 witness: one step has returned from the recursive join of a non-empty
\* node, from the zero-generation case, from the empty-node case and from a
\* memo hit.
C16_Witness ==
    /\ op.name = "step"
    /\ status = "ok"
    /\ \E e \in sets : e.gen > 0 /\ ~IsEmpty(e.node)
    /\ \E e \in sets : e.gen > 0 /\ IsEmpty(e.node)
    /\ \E e \in sets : e.gen = 0
    /\ hits # {}

\* The loop of Simulation::new has exited.
NewDone == ~MinLayerTooSmall(min_layer, rule.radius)

\* C17 as stated: the minimum layer computed for a rule of radius r is the
\* smallest layer L with 2^L / 4 >= r, and it is at least LayerBase + 1.
C17_MinLayerSmallestOfAll ==
    NewDone =>
        /\ LayerLen(min_layer) >= 4 * rule.radius
        /\ \A L \in 0..(min_layer - 1) : LayerLen(L) < 4 * rule.radius
        /\ min_layer >= LayerBase + 1

\* C17 amended: the minimum layer computed for a rule of radius r is the
\* smallest layer L >= 2 with 2^L / 4 >= r (for r = 0 it is 2, although
\* lower layers satisfy 2^L / 4 >= 0); it is at least LayerBase + 1, and it
\* is the layer below which step() refuses to advance a node.
C17_MinLayerSmallestFromTwo ==
    NewDone =>
        /\ min_layer >= FirstSimLayer
        /\ LayerLen(min_layer) \div 4 >= rule.radius
        /\ \A L \in FirstSimLayer..(min_layer - 1) :
              LayerLen(L) \div 4 < rule.radius
        /\ min_layer >= LayerBase + 1
        /\ min_layer = MinLayer(rule.radius)

\* C17 witness: the loop has run three times for a radius that is not a
\* power of two.
C17_Witness ==
    /\ NewDone
    /\ rule.radius = 5
    /\ min_layer = 5

\* The empty nodes of layer L among the interned nodes, content being the
\* function from the identities to the cells they cover.
EmptyIds(content, L) ==
    {i \in NodeIds : IdLayer(ndcache.cache, i) = L /\ IsEmpty(content[i])}

\* C18: the cache holds at most one empty node of each layer, and it is the
\* entry of the empty-node table when the table has one; interning BRANCHES
\* children that are all the empty node of layer L gives the empty node of
\* layer L + 1, the one that get_empty_node(L + 1) gives; every child of an
\* empty node above layer 1 is the empty node of the layer below.
C18_OneEmptyNodePerLayer ==
    \E content \in {[i \in NodeIds |-> IdContent(ndcache.cache, i)]} :
        /\ \A i, j \in NodeIds :
              (/\ IsEmpty(content[i]) /\ IsEmpty(content[j])
               /\ Len(content[i]) = Len(content[j])) => i = j
        /\ \A L \in 1..Len(ndcache.empties) :
              EmptyIds(content, L) = {ndcache.empties[L]}
        /\ \A i \in NodeIds :
              (IsEmpty(content[i]) /\ IdLayer(ndcache.cache, i) > 1) =>
                  \A j \in 1..BRANCHES :
                      /\ ndcache.cache[i][j][1] = "node"
                      /\ ndcache.cache[i][j][2]
                            \in EmptyIds(content, IdLayer(ndcache.cache, i) - 1)
        /\ \A e \in NodeIds :
              IsEmpty(content[e]) =>
                  \E g \in {CacheGetNode(ndcache,
                                [j \in 1..BRANCHES |-> <<"node", e>>])} :
                  \E n \in {CacheGetEmptyNode(g.st,
                                IdLayer(ndcache.cache, e) + 1)} :
                      /\ n.id = g.id
                      /\ n.st.cache = g.st.cache
                      /\ IsEmpty(IdContent(g.st.cache, g.id))
                      /\ EmptyIds(content, IdLayer(ndcache.cache, e) + 1)
                            \subseteq {g.id}

\* C18 witness: get_empty_node(2) has returned the node that a tree reached
\* as its root when set_cell overwrote its last nonzero cell, and has
\* entered it in the empty-node table; the cache holds non-empty nodes.
C18_Witness ==
    /\ cacheop.name = "get_empty_node"
    /\ Len(ndcache.empties) >= 2
    /\ cacheop.arg = ndcache.empties[2]
    /\ \E k \in TreeIds : ndtrees[k].root = ndcache.empties[2]
    /\ \E i \in NodeIds : ~IsEmpty(IdContent(ndcache.cache, i))

\* C19: a call of advance_inner_node with 0 generations returns the centered
\* inner node of its node, whether computed or found in the result table,
\* and a result stored by a call with 0 generations is never returned to a
\* call with more than 0 generations.
C19_ZeroGenerationsInnerNode ==
    /\ \A e \in sets : e.gen = 0 => e.result = GetInnerNode(e.node)
    /\ \A h \in hits :
          /\ h.asked = 0 =>
                \A e \in ResultsOf(results, h.node) :
                    e.result = GetInnerNode(h.node)
          /\ ~(h.stored = 0 /\ h.asked > 0)

\* C20: a call of advance_inner_node with more than 0 generations on an
\* empty node of layer L that has no memoized result returns the empty node
\* of layer L - 1, which is the node's child at index 0.
C20_EmptyNodeReturnsEmptyChild ==
    \A e \in sets :
        (e.gen > 0 /\ IsEmpty(e.node)) =>
            /\ e.result = GetEmptyNode(NodeLayer(e.node) - 1)
            /\ e.result = Branch(e.node, 0)
            /\ ResultsOf(pre.results, e.node) = {}

\* C20 witness: the step of a tree that holds a cell has advanced an empty
\* node above the minimum layer by more than 0 generations.
C20_Witness ==
    /\ op.name = "step"
    /\ ~IsEmpty(pre.root)
    /\ \E e \in sets :
          /\ e.gen > 0
          /\ IsEmpty(e.node)
          /\ NodeLayer(e.node) > min_layer

\* C21: no call of advance_inner_node made by step fails an assertion: the
\* step returns or stops at a todo!(), never at the layer assertion or at
\* the generations assertion, and a step that stops at the one-generation
\* base case of a tree stepped by t > 0 does so with a node at min_layer.
C21_NoAssertionFails ==
    (op.name = "step" /\ op.arg > 0) =>
        /\ status \notin {"assert_layer", "assert_generations",
                          "assert_step_size"}
        /\ status \in {"ok", "todo_one_generation", "todo_multiple_generations"}
        /\ NodeLayer(ExpandForStep(PreTree, rule.radius, op.arg).root)
              >= min_layer + Bits(op.arg)

\* C21 witness: a step by more than one generation has come down, through
\* calls on three layers or more, to a non-empty node at the minimum layer
\* with one generation left.
C21_Witness ==
    /\ op.name = "step"
    /\ op.arg >= 2
    /\ status = "todo_one_generation"
    /\ Cardinality({c.layer : c \in calls}) >= 3
    /\ \E c \in calls : c.layer = min_layer /\ c.gen = 1

\* The root that the expansion phase of the last step handed to
\* advance_inner_node.
ExpandedRoot == ExpandForStep(PreTree, rule.radius, op.arg).root

\* The value of expansion_distance after j iterations of the loop of step()
\* on a root of layer L: the sum of len/4 over the roots of layers L+1..L+j.
DistanceAfter(L, j) == (LayerLen(L) * (2 ^ j - 1)) \div 2

\* C22: a step by t > 0 comes to an end, by returning or at a panic, after a
\* bounded amount of work: the expansion loop runs k >= 1 times, k the least
\* count whose accumulated distance reaches min_expansion_distance; every
\* call of advance_inner_node other than the one made by step is on a node
\* exactly one layer below its caller's and not below min_layer; and a step
\* that returns leaves a root of layer >= 1 that shrink cannot reduce further.
C22_StepTerminates ==
    (op.name = "step" /\ op.arg > 0) =>
        \E L0 \in {NodeLayer(pre.root)}, top \in {ExpandedRoot} :
        \E k \in {NodeLayer(top) - L0 - 1} :
            /\ status \in {"ok", "todo_one_generation",
                           "todo_multiple_generations"}
            /\ k >= 1
            /\ DistanceAfter(L0, k) >= MinExpansionDistance(rule.radius, op.arg)
            /\ DistanceAfter(L0, k - 1) < MinExpansionDistance(rule.radius, op.arg)
            /\ Cardinality({c \in calls : c.caller = 0}) = 1
            /\ \A c \in calls :
                  /\ c.caller = 0 => c.layer = NodeLayer(top) /\ c.gen = op.arg
                  /\ c.caller # 0 => c.layer = c.caller - 1
                  /\ c.layer >= min_layer
                  /\ c.layer <= NodeLayer(top)
                  /\ c.gen <= op.arg
            /\ status = "ok" =>
                  /\ NodeLayer(root) >= 1
                  /\ NodeLayer(root) < NodeLayer(top)
                  /\ \/ NodeLayer(root) = 1
                     \/ Population(GetInnerNode(root)) # Population(root)

\* C22 witness: a step on a non-empty tree has returned after calls of
\* advance_inner_node on three layers or more and a shrink of the result.
C22_Witness ==
    /\ op.name = "step"
    /\ op.arg > 0
    /\ status = "ok"
    /\ ~IsEmpty(pre.root)
    /\ Cardinality({c.layer : c \in calls}) >= 3
    /\ NodeLayer(root) < NodeLayer(ExpandedRoot) - 1

\* The centre offset + len/2 of the rooted rectangle of a tree
Centre(t) == VecAddScalar(t.offset, NodeLen(t.root) \div 2)

\* C23: when a step by t > 0 has returned, the root it installed sits on the
\* centered inner region of the expanded root: the offset given to the
\* result of advance_inner_node is the expanded tree's offset plus a quarter
\* of the expanded root's length, so, the final shrink keeping the centre,
\* the tree's centre is the expanded tree's centre.
C23_OffsetAdvancesWithRoot ==
    (op.name = "step" /\ op.arg > 0 /\ status = "ok") =>
        Centre([root |-> root, offset |-> offset])
            = Centre(ExpandForStep(PreTree, rule.radius, op.arg))

RECURSIVE BitXor(_, _, _)
\* The bitwise exclusive or of two naturals below 2^bits
BitXor(a, b, bits) ==
    IF bits = 0 THEN 0
    ELSE ((a + b) % 2) + 2 * BitXor(a \div 2, b \div 2, bits - 1)

\* C24: after expand(), child i of the new root has the old root's child i
\* at the index i XOR (2^NDIM - 1) and empty branches of that layer at its
\* other indices; the offset is lower by a quarter of the new root's length
\* on every axis, and the centre offset + len/2 is where it was.
C24_ExpandWrapsOpposite ==
    (op.name = "expand") =>
        /\ \A i, j \in 0..(BRANCHES - 1) :
              Branch(Branch(root, i), j)
                = IF j = BitXor(i, 2 ^ NDIM - 1, NDIM)
                    THEN Branch(pre.root, i)
                    ELSE [k \in 1..(Len(pre.root) \div BRANCHES) |-> 0]
        /\ offset = [a \in Axes |-> pre.offset[a] - NodeLen(root) \div 4]
        /\ Centre([root |-> root, offset |-> offset]) = Centre(PreTree)

\* C24 witness: a root of layer 2 or more whose children are all non-empty
\* has been expanded.
C24_Witness ==
    /\ op.name = "expand"
    /\ NodeLayer(pre.root) >= 2
    /\ \A i \in 0..(BRANCHES - 1) : ~IsEmpty(Branch(pre.root, i))

\* C25: expand_to(pos) returns with pos inside the rooted rectangle, having
\* made as many expand() calls as it returns, each adding one layer: none
\* when pos was inside already, and otherwise no more than needed, pos being
\* outside the rectangle of one expansion less; and after set_cell(pos, c)
\* the position is inside the rooted rectangle and holds c.
C25_ExpandToReachesPos ==
    /\ (op.name = "expand_to") =>
          /\ RectContains(root, offset, op.pos)
          /\ ret = NodeLayer(root) - NodeLayer(pre.root)
          /\ RectContains(pre.root, pre.offset, op.pos) =>
                ret = 0 /\ root = pre.root /\ offset = pre.offset
          /\ ret > 0 =>
                ~RectContains(GetInnerNode(root),
                              VecAddScalar(offset, NodeLen(root) \div 4),
                              op.pos)
          /\ SameCells(root, offset, pre.root, pre.offset)
    /\ (op.name = "set_cell") =>
          /\ RectContains(root, offset, op.pos)
          /\ NodeGetCell(root, VecSub(op.pos, offset)) = op.arg

\* C25 witness: expand_to has expanded a tree that holds a cell twice or
\* more to reach its position.
C25_Witness ==
    /\ op.name = "expand_to"
    /\ ret >= 2
    /\ ~IsEmpty(pre.root)
    /\ ~RectContains(pre.root, pre.offset, op.pos)

RECURSIVE InnerTimes(_, _)
\* The centered inner node taken k times
InnerTimes(n, k) == IF k = 0 THEN n ELSE InnerTimes(GetInnerNode(n), k - 1)

\* C26: shrink() returns with the root at layer 1 or above and with nothing
\* left to shrink: the root is at layer 1 or its centered inner node has
\* another population; the returned count is the number of layers removed,
\* the root is the root before the call replaced that many times by its
\* centered inner node, every one of them with the root's population, and
\* the centre of the rooted rectangle has not moved.
C26_ShrinkMaximal ==
    (op.name = "shrink") =>
        /\ NodeLayer(root) >= 1
        /\ \/ NodeLayer(root) = 1
           \/ Population(GetInnerNode(root)) # Population(root)
        /\ ret = NodeLayer(pre.root) - NodeLayer(root)
        /\ root = InnerTimes(pre.root, ret)
        /\ \A k \in 0..ret :
              Population(InnerTimes(pre.root, k)) = Population(pre.root)
        /\ Centre([root |-> root, offset |-> offset]) = Centre(PreTree)

\* C26 witness: shrink() has removed a layer and stopped above layer 1,
\* where the inner node would lose a cell.
C26_Witness ==
    /\ op.name = "shrink"
    /\ ret >= 1
    /\ NodeLayer(root) >= 2
    /\ Population(GetInnerNode(root)) < Population(root)

\* C27: a tree built by set_cell, expanded any number of times and then
\* shrunk once has a rooted rectangle whose side is at most the side it had
\* before the expansions.
C27_ShrinkUndoesExpands ==
    (old_rect > 0 /\ op.name = "shrink") => NodeLen(root) <= old_rect

\* C27 witness: a tree holding a cell has been expanded twice or more and
\* then shrunk.
C27_Witness ==
    /\ old_rect > 0
    /\ op.name = "shrink"
    /\ NodeLen(pre.root) >= 4 * old_rect
    /\ Population(root) >= 1

\* C28: in a step, set_result is called only on nodes that had no result
\* when the step began and none just before the call, at most once for a
\* node; a node that had a result before the step has the same one after
\* it; a node never has two results; and every result is one layer below
\* its node.
C28_ResultsSetOnce ==
    (op.name = "step" /\ op.arg > 0) =>
        /\ \A e \in sets :
              /\ ~e.had
              /\ \A r \in pre.results : r.node # e.node
              /\ \A f \in sets : f.node = e.node => f = e
              /\ \E r \in results :
                    r.node = e.node /\ r.result = e.result /\ r.gen = e.gen
              /\ NodeLayer(e.result) = NodeLayer(e.node) - 1
        /\ pre.results \subseteq results
        /\ \A r1, r2 \in results : r1.node = r2.node => r1 = r2
        /\ \A r \in results : NodeLayer(r.result) < NodeLayer(r.node)

\* C28 witness: a step that began with results in the table has hit some of
\* them and has stored results for nodes of two layers or more.
C28_Witness ==
    /\ op.name = "step"
    /\ op.arg > 0
    /\ pre.results # {}
    /\ hits # {}
    /\ Cardinality({NodeLayer(e.node) : e \in sets}) >= 2

\* C29: every step size that a frame of the simulation window passes to
\* the stepper is positive, so that step does not stop at its step size
\* assertion: 1 from "Step 1 generation", the clamped field from "Step N
\* generations", which is the step size left in the state, and the distance
\* to a target above the generation count from "Jump to generation".
C29_GuiStepsArePositive ==
    \A i \in 1..Len(gui_steps) :
        /\ gui_steps[i].n > 0
        /\ Step(NewTree, {}, rule.radius, gui_steps[i].n).status
              # "assert_step_size"
        /\ gui_steps[i].by = "step_n" =>
              gui_steps[i].n = state.step_size /\ gui_steps[i].n >= gui_steps[i].field
        /\ gui_steps[i].by = "jump" =>
              /\ state.jump_to_gen = state.generation
              /\ gui_steps[i].field = state.jump_to_gen

\* C29 witness: "Step N generations" has been pressed in a frame whose step
\* size field was not positive, and the stepper was invoked with 1.
C29_Witness ==
    /\ gui_steps # <<>>
    /\ gui_steps[1].by = "step_n"
    /\ gui_steps[1].field <= 0
    /\ gui_steps[1].n = 1

\* C30: the bitshift check takes the overflow path exactly when the shift
\* amount, or any component of a vector shift amount, is negative or not
\* less than the 64 bits of the integer type.
C30_OverflowWhenAnyOutOfRange ==
    /\ (shift.kind = "int") =>
          (shift.path = "overflow"
              <=> (shift.amt < 0 \/ shift.amt >= INT_BITS))
    /\ (shift.kind = "vec") =>
          (shift.path = "overflow"
              <=> \E k \in 1..Len(shift.amt) :
                     shift.amt[k] < 0 \/ shift.amt[k] >= INT_BITS)

====
